---- MODULE Spec2Model ----
(***************************************************************************)
(* Singleton::Wrapper<T, keepalive> of src/include/Singleton.h: the        *)
(* double-checked, lazily constructing singleton with optional validation  *)
(* of the constructed instance (Check) and result reporting                *)
(* (CheckWithResult).                                                      *)
(*                                                                         *)
(* One program point per line of instance_impl() / instance() that touches *)
(* shared state.  Instances are numbered in construction order; a Handle   *)
(* (std::shared_ptr<T>) is a record  [inst, owning]:  inst = 0 is the null *)
(* handle, owning = FALSE is a handle that shares no ownership of the      *)
(* instance it points to.                                                  *)
(***************************************************************************)
EXTENDS Integers, FiniteSets, Sequences, TLC

\* Bounds of the model.
NumThreads == 2
MaxInst == 3

Threads == 1..NumThreads
InstIds == 1..MaxInst

\* Constructor arguments a caller may pass (the wrapped type of the
\* validation scenario fails its check when constructed with "fail").
Args == {"ok", "fail"}

\* Which overload of instance() the enable_if conditions select for T.
Modes == {"None", "Check", "CheckResult"}

VARIABLES
    CheckMode,              \* the capability set of T (template dispatch)
    keepalive,              \* template parameter  bool keepalive
    pc,                     \* program point of each thread
    args,                   \* Args&&... of the call in progress
    instance_handle,        \* instance_and_lock.first  of the call in progress
    maybe_lock,             \* instance_and_lock.second holds the lock
    outcome,                \* what the caller keeps from its last call
    weak_instance_handle_,  \* static weak_ptr: instance id, 0 = empty
    keepalive_handle_,      \* static shared_ptr: instance id, 0 = null
    instance_lock_,         \* static mutex: owner thread, 0 = free
    nInst,                  \* number of T constructed so far
    ctorArg,                \* the argument each instance was built from
    destroyed,              \* instances whose destructor has run
    deadAtCall,             \* observation: destroyed, as of the call's start
    raced,                  \* observation: fast path missed before any T existed
    outer,                  \* args of the calls suspended in T's constructor
    transports,             \* the Transport objects of the demo (Transport.h)
    heap,                   \* the MyImpl objects make_shared allocated
    calls,                  \* observation: process calls made on each MyImpl
    result,                 \* what the last process call returned
    copies                  \* observation: pairs of Transports of one construction

\* args, raced and deadAtCall are locals of a call and of its caller: they
\* are reset when the call or the caller is done with them.
vars == <<CheckMode, keepalive, pc, args, instance_handle, maybe_lock, outcome,
          weak_instance_handle_, keepalive_handle_, instance_lock_, nInst,
          ctorArg, destroyed, deadAtCall, raced, outer,
          transports, heap, calls, result, copies>>

\* The state of the Transport demo, which the singleton does not touch.
tvars == <<transports, heap, calls, result, copies>>

\* The state of Singleton::Wrapper, which the Transport demo does not touch.
svars == <<CheckMode, keepalive, pc, args, instance_handle, maybe_lock, outcome,
           weak_instance_handle_, keepalive_handle_, instance_lock_, nInst,
           ctorArg, destroyed, deadAtCall, raced, outer>>

----------------------------------------------------------------------------
\* Handles and outcomes

NullHandle == [inst |-> 0, owning |-> FALSE]

Handle(i) == [inst |-> i, owning |-> TRUE]

\* A handle sharing no ownership of i (see TornRead).
Alias(i) == [inst |-> i, owning |-> FALSE]

\* A std::any: the type of the value it holds, and the value.
MakeAny(T, v) == [type |-> T, value |-> v]

EmptyAny == MakeAny("void", 0)

NoOutcome == [kind |-> "none", h |-> NullHandle, payload |-> EmptyAny]

HandleOutcome(h) == [kind |-> "handle", h |-> h, payload |-> EmptyAny]

\* The std::any arm of std::variant<Handle, std::any> (line 205)
VariantOfAny(a) == [kind |-> "any", h |-> NullHandle, payload |-> a]

\* The failure outcome carrying result value v of the declared type ResultT
AnyOutcome(v) == VariantOfAny(MakeAny("ResultT", v))

\* lines 57-59: std::any_cast<ResultT>(result) yields the held value when the
\* std::any holds a ResultT and throws std::bad_any_cast otherwise.
GetResultValue(a) ==
    IF a.type = "ResultT"
    THEN [thrown |-> FALSE, value |-> a.value]
    ELSE [thrown |-> TRUE, value |-> 0]

\* The wrapped type of the validation scenario: instanceOk() is false when
\* the instance was constructed with "fail"; its result code is then 7.
ResultCode == 7

InstanceOk(i) == ctorArg[i] # "fail"

InstanceResultValue(i) == IF InstanceOk(i) THEN 0 ELSE ResultCode

\* (mutation) instanceResult() converting the value to another type before
\* it is wrapped
InstanceResultMistyped(i) == MakeAny("int", InstanceResultValue(i))

\* line 70: CheckWithResult::instanceResult wraps the ResultT that
\* instanceResultValue() returns in a std::any
InstanceResult(i) == MakeAny("ResultT", InstanceResultValue(i))

\* (mutation) the keep-alive handle declared as a non-owning weak_type
OwnersWithoutKeepalive(i) ==
    Cardinality({t \in Threads : instance_handle[t] = Handle(i)})
  + Cardinality({t \in Threads : outcome[t].h = Handle(i)})

\* shared_ptr use_count of instance i: the handles of calls in progress,
\* the handles callers keep, and the keep-alive handle.
Owners(i) ==
    Cardinality({t \in Threads : instance_handle[t] = Handle(i)})
  + Cardinality({t \in Threads : outcome[t].h = Handle(i)})
  + (IF keepalive_handle_ = i THEN 1 ELSE 0)

Alive(i) == i \in 1..nInst /\ i \notin destroyed

\* weak_ptr::lock(): a handle to the instance if it is still alive, else null
WeakLock(w) == IF w # 0 /\ w \notin destroyed THEN Handle(w) ELSE NullHandle

InFlight == {t \in Threads : pc[t] # "idle"}

----------------------------------------------------------------------------
\* The Transport demo (Transport.h, Transport.cpp, TransportImpl.cpp)

\* Bounds: Transport objects, MyImpl objects alive at once, process calls
\* made on one MyImpl.
MaxTransports == 3
MaxImpls == 2
MaxCalls == 2

Slots == 1..MaxTransports
Addrs == 1..MaxImpls

\* Names a Transport is constructed with ("fail" makes the open fail) and
\* arguments of process.
Names == {"handle1", "handle3", "fail"}
ProcessArgs == {"a", "e"}

\* A Transport that does not exist (before its constructor, after its
\* destructor); pImpl is the address of the MyImpl, 0 for none.
NoTransport == [live |-> FALSE, open_fail_desc |-> "", pImpl |-> 0]

\* Memory holding no MyImpl
FreeCell == [allocated |-> FALSE, data |-> "", counter |-> 0, use_count |-> 0]

NoResult == [n |-> 0, data |-> "", arg |-> "", counter |-> 0]

\* MyImpl::MyImpl(fail_desc, name), given the value g the memory of counter
\* happens to hold: for "fail" the constructor returns before it assigns
\* data and counter, so data stays the empty string and counter is g.
MyImplCtor(name, g) ==
    IF name = "fail"
    THEN [fail_desc |-> "got fail for name", data |-> "", counter |-> g]
    ELSE [fail_desc |-> "", data |-> name, counter |-> 0]

\* Transport::is_open
IsOpen(s) == transports[s].open_fail_desc = ""

\* Transport::use_count
UseCount(s) ==
    IF transports[s].pImpl # 0 THEN heap[transports[s].pImpl].use_count ELSE 0

\* Transport::is_same
IsSame(s, r) == transports[s].pImpl = transports[r].pImpl

LiveTransports == {s \in Slots : transports[s].live}

\* The Transports that are copies, direct or not, of one construction
CopiesOf(s) == {s} \cup {r \in Slots : {s, r} \in copies}

TransportInit ==
    /\ transports = [s \in Slots |-> NoTransport]
    /\ heap = [a \in Addrs |-> FreeCell]
    /\ calls = [a \in Addrs |-> 0]
    /\ result = NoResult
    /\ copies = {}

----------------------------------------------------------------------------
Init ==
    /\ CheckMode \in Modes
    /\ keepalive \in BOOLEAN
    /\ pc = [t \in Threads |-> "idle"]
    /\ args = [t \in Threads |-> "ok"]
    /\ instance_handle = [t \in Threads |-> NullHandle]
    /\ maybe_lock = [t \in Threads |-> FALSE]
    /\ outcome = [t \in Threads |-> NoOutcome]
    /\ weak_instance_handle_ = 0
    /\ keepalive_handle_ = 0
    /\ instance_lock_ = 0
    /\ nInst = 0
    /\ ctorArg = [i \in InstIds |-> "ok"]
    /\ destroyed = {}
    /\ deadAtCall = [t \in Threads |-> {}]
    /\ raced = [t \in Threads |-> FALSE]
    /\ outer = [t \in Threads |-> << >>]
    /\ TransportInit

\* Instances left without an owner by a step are destroyed by it
\* (shared_ptr runs ~T when the use count reaches zero).
Reap == destroyed' = destroyed \cup {i \in 1..nInst' : Owners(i)' = 0}

\* A caller enters instance(args...).  Every call in progress may have to
\* construct, so calls are admitted while instance ids remain.
Call(t, a) ==
    /\ pc[t] = "idle"
    /\ UNCHANGED tvars
    /\ nInst + Cardinality(InFlight) < MaxInst
    /\ pc' = [pc EXCEPT ![t] = "fast"]
    /\ args' = [args EXCEPT ![t] = a]
    /\ deadAtCall' = [deadAtCall EXCEPT ![t] = destroyed]
    /\ raced' = [raced EXCEPT ![t] = FALSE]
    /\ UNCHANGED <<outer, CheckMode, keepalive, instance_handle, maybe_lock, outcome,
                   weak_instance_handle_, keepalive_handle_, instance_lock_,
                   nInst, ctorArg, destroyed>>

\* (mutation) no fast path: every call goes on to take the mutex
FirstCheckSkipped(w) == NullHandle

\* line 117: weak_instance_handle_.lock() of the first check
FirstCheck(w) == WeakLock(w)

\* instance_impl, lines 117-119: the first check, made without the mutex.
FastPath(t) ==
    /\ pc[t] = "fast"
    /\ UNCHANGED tvars
    /\ LET h == FirstCheck(weak_instance_handle_) IN
       IF h # NullHandle
       THEN /\ instance_handle' = [instance_handle EXCEPT ![t] = h]
            /\ pc' = [pc EXCEPT ![t] = "return"]
            /\ raced' = raced
       ELSE /\ instance_handle' = instance_handle
            /\ pc' = [pc EXCEPT ![t] = "lock"]
            /\ raced' = [raced EXCEPT ![t] = (nInst = 0)]
    /\ UNCHANGED <<outer, CheckMode, keepalive, args, maybe_lock, outcome,
                   weak_instance_handle_, keepalive_handle_, instance_lock_,
                   nInst, ctorArg, destroyed, deadAtCall>>

\* Line 117 is not ordered with the assignment of lines 150/180/215, which
\* another thread makes under the mutex: a data race on the weak_ptr.  Read
\* before or after the assignment is FastPath; read during it, lock() can
\* pair the control block of the expired previous instance, which the
\* assignment releases, with the new pointer: a non-null handle to the new
\* instance that owns no share of it.  An empty previous weak_ptr has no
\* control block and lock() on it yields null (FastPath's miss).
TornRead(t) ==
    /\ pc[t] = "fast"
    /\ UNCHANGED tvars
    /\ weak_instance_handle_ # 0
    /\ \E w \in Threads \ {t} :
         /\ pc[w] = "publish"
         /\ instance_handle' =
              [instance_handle EXCEPT ![t] = Alias(instance_handle[w].inst)]
    /\ pc' = [pc EXCEPT ![t] = "return"]
    /\ UNCHANGED <<outer, CheckMode, keepalive, args, maybe_lock, outcome,
                   weak_instance_handle_, keepalive_handle_, instance_lock_,
                   nInst, ctorArg, destroyed, deadAtCall, raced>>

\* (mutation) a mutex that excludes nobody
LockFreeAlways(t) == TRUE

\* (mutation) instance_lock_ declared std::recursive_mutex
LockFreeRecursive(t) == instance_lock_ \in {0, t}

\* line 120: std::unique_lock lock(instance_lock_) blocks while it is held
LockFree(t) == instance_lock_ = 0

Lock(t) ==
    /\ pc[t] = "lock"
    /\ UNCHANGED tvars
    /\ LockFree(t)
    /\ instance_lock_' = t
    /\ pc' = [pc EXCEPT ![t] = "recheck"]
    /\ UNCHANGED <<outer, CheckMode, keepalive, args, instance_handle, maybe_lock,
                   outcome, weak_instance_handle_, keepalive_handle_, nInst,
                   ctorArg, destroyed, deadAtCall, raced>>

\* (mutation) line 124 without the second check: every thread that takes
\* the mutex constructs
SecondCheckSkipped(w) == NullHandle

\* line 124: the second check, under the mutex
SecondCheck(w) == WeakLock(w)

\* (mutation) the second check's hit returning with the mutex still locked
RecheckKeepsLock(t) ==
    /\ pc[t] = "recheck"
    /\ UNCHANGED tvars
    /\ LET h == SecondCheck(weak_instance_handle_) IN
       IF h # NullHandle
       THEN /\ instance_handle' = [instance_handle EXCEPT ![t] = h]
            /\ pc' = [pc EXCEPT ![t] = "return"]
       ELSE /\ instance_handle' = instance_handle
            /\ pc' = [pc EXCEPT ![t] = "construct"]
    /\ UNCHANGED <<outer, CheckMode, keepalive, args, maybe_lock, outcome,
                   weak_instance_handle_, keepalive_handle_, instance_lock_,
                   nInst, ctorArg, destroyed, deadAtCall, raced>>

\* lines 124-126: on a hit the pair is returned without the lock, and the
\* unique_lock local unlocks as instance_impl returns; on a miss the thread
\* goes on to T's constructor.
Recheck(t) ==
    /\ pc[t] = "recheck"
    /\ UNCHANGED tvars
    /\ LET h == SecondCheck(weak_instance_handle_) IN
       IF h # NullHandle
       THEN /\ instance_handle' = [instance_handle EXCEPT ![t] = h]
            /\ instance_lock_' = 0
            /\ pc' = [pc EXCEPT ![t] = "return"]
       ELSE /\ instance_handle' = instance_handle
            /\ instance_lock_' = instance_lock_
            /\ pc' = [pc EXCEPT ![t] = "construct"]
    /\ UNCHANGED <<outer, CheckMode, keepalive, args, maybe_lock, outcome,
                   weak_instance_handle_, keepalive_handle_, nInst, ctorArg,
                   destroyed, deadAtCall, raced>>

\* (mutation) the lock not moved into the returned pair: it unlocks as
\* instance_impl returns
ConstructDropsLock(t) ==
    /\ pc[t] = "construct"
    /\ UNCHANGED tvars
    /\ nInst' = nInst + 1
    /\ ctorArg' = [ctorArg EXCEPT ![nInst + 1] = args[t]]
    /\ instance_handle' = [instance_handle EXCEPT ![t] = Handle(nInst + 1)]
    /\ maybe_lock' = [maybe_lock EXCEPT ![t] = TRUE]
    /\ instance_lock_' = 0
    /\ pc' = [pc EXCEPT ![t] = IF CheckMode = "None" THEN "publish" ELSE "check"]
    /\ UNCHANGED <<outer, CheckMode, keepalive, args, outcome, weak_instance_handle_,
                   keepalive_handle_, destroyed, deadAtCall, raced>>

\* (mutation) T constructed without the caller's arguments
ConstructDefaultArgs(t) ==
    /\ pc[t] = "construct"
    /\ UNCHANGED tvars
    /\ nInst' = nInst + 1
    /\ ctorArg' = [ctorArg EXCEPT ![nInst + 1] = "ok"]
    /\ instance_handle' = [instance_handle EXCEPT ![t] = Handle(nInst + 1)]
    /\ maybe_lock' = [maybe_lock EXCEPT ![t] = TRUE]
    /\ pc' = [pc EXCEPT ![t] = IF CheckMode = "None" THEN "publish" ELSE "check"]
    /\ UNCHANGED <<outer, CheckMode, keepalive, args, outcome, weak_instance_handle_,
                   keepalive_handle_, instance_lock_, destroyed, deadAtCall,
                   raced>>

\* lines 128-129: make_shared<T>(args...) completes; the lock moves into the
\* returned pair.  instance() then tests maybe_lock (lines 149/176/211).
Construct(t) ==
    /\ pc[t] = "construct"
    /\ UNCHANGED tvars
    /\ nInst' = nInst + 1
    /\ ctorArg' = [ctorArg EXCEPT ![nInst + 1] = args[t]]
    /\ instance_handle' = [instance_handle EXCEPT ![t] = Handle(nInst + 1)]
    /\ maybe_lock' = [maybe_lock EXCEPT ![t] = TRUE]
    /\ pc' = [pc EXCEPT ![t] = IF CheckMode = "None" THEN "publish" ELSE "check"]
    /\ UNCHANGED <<outer, CheckMode, keepalive, args, outcome, weak_instance_handle_,
                   keepalive_handle_, instance_lock_, destroyed, deadAtCall,
                   raced>>

\* (mutation) line 179 / 214 ignoring what instanceOk() returned
CheckPassedAlways(h) == h # NullHandle

\* (mutation) the test of line 179 / 214 inverted
CheckPassedInverted(h) == h # NullHandle /\ ~InstanceOk(h.inst)

\* lines 177-179 / 212-214: if (instance_handle) ... check && check->instanceOk()
CheckPassed(h) == h # NullHandle /\ InstanceOk(h.inst)

Validate(t) ==
    /\ pc[t] = "check"
    /\ UNCHANGED tvars
    /\ pc' = [pc EXCEPT ![t] =
                IF CheckPassed(instance_handle[t]) THEN "publish" ELSE "fail"]
    /\ UNCHANGED <<outer, CheckMode, keepalive, args, instance_handle, maybe_lock,
                   outcome, weak_instance_handle_, keepalive_handle_,
                   instance_lock_, nInst, ctorArg, destroyed, deadAtCall, raced>>

\* (mutation) the keep-alive handle stored, the slot left as it was
PublishSkipped(t) ==
    /\ pc[t] = "publish"
    /\ UNCHANGED tvars
    /\ pc' = [pc EXCEPT ![t] = "keepalive"]
    /\ UNCHANGED <<outer, CheckMode, keepalive, args, instance_handle,
                   maybe_lock, outcome, weak_instance_handle_,
                   keepalive_handle_, instance_lock_, nInst, ctorArg,
                   destroyed, deadAtCall, raced>>

\* lines 150 / 180 / 215: weak_instance_handle_ = instance_handle
Publish(t) ==
    /\ pc[t] = "publish"
    /\ UNCHANGED tvars
    /\ weak_instance_handle_' = instance_handle[t].inst
    /\ pc' = [pc EXCEPT ![t] = "keepalive"]
    /\ UNCHANGED <<outer, CheckMode, keepalive, args, instance_handle, maybe_lock,
                   outcome, keepalive_handle_, instance_lock_, nInst, ctorArg,
                   destroyed, deadAtCall, raced>>

\* (mutation) the keep-alive handle stored whatever the policy
KeepsAliveAlways == TRUE

\* (mutation) the keep-alive handle never stored
KeepsAliveNever == FALSE

\* lines 151 / 181 / 216: if constexpr (keepalive) keepalive_handle_ = ...
KeepsAlive == keepalive

Keepalive(t) ==
    /\ pc[t] = "keepalive"
    /\ UNCHANGED tvars
    /\ keepalive_handle_' =
         IF KeepsAlive THEN instance_handle[t].inst ELSE keepalive_handle_
    /\ pc' = [pc EXCEPT ![t] = "return"]
    /\ UNCHANGED <<outer, CheckMode, keepalive, args, instance_handle, maybe_lock,
                   outcome, weak_instance_handle_, instance_lock_, nInst,
                   ctorArg, deadAtCall, raced>>
    /\ Reap

\* Where a call that returns leaves its thread: back in the caller, or, for
\* a call made by T's constructor, back in that constructor (line 128) with
\* the arguments of the suspended call.
Resume(t) == IF outer[t] = << >> THEN "idle" ELSE "construct"

ResumeArgs(t) == IF outer[t] = << >> THEN "ok" ELSE Head(outer[t])

Pop(frames) == IF frames = << >> THEN << >> ELSE Tail(frames)

\* lines 154 / 188 / 228: return instance_handle.  The caller's variable
\* takes a copy; a pair without the lock dies with it, a pair with the lock
\* is destroyed by Unlock and DropLocal.
Return(t) ==
    /\ pc[t] = "return"
    /\ UNCHANGED tvars
    /\ outcome' = [outcome EXCEPT ![t] = HandleOutcome(instance_handle[t])]
    /\ IF maybe_lock[t]
       THEN /\ pc' = [pc EXCEPT ![t] = "unlock"]
            /\ UNCHANGED <<instance_handle, args, raced, outer>>
       ELSE /\ pc' = [pc EXCEPT ![t] = Resume(t)]
            /\ instance_handle' = [instance_handle EXCEPT ![t] = NullHandle]
            /\ args' = [args EXCEPT ![t] = ResumeArgs(t)]
            /\ raced' = [raced EXCEPT ![t] = FALSE]
            /\ outer' = [outer EXCEPT ![t] = Pop(outer[t])]
    /\ UNCHANGED <<CheckMode, keepalive, maybe_lock,
                   weak_instance_handle_, keepalive_handle_, instance_lock_,
                   nInst, ctorArg, deadAtCall>>
    /\ Reap

\* (mutation) the failure branch falling through to  return instance_handle
FailureOutcomeLeaks(t) == HandleOutcome(instance_handle[t])

\* (mutation) the failure branch always ending in  return {}  (line 222)
FailureOutcomeEmpty(t) == HandleOutcome(NullHandle)

\* What the failure branch returns: the null Handle (line 183), or the
\* std::any of instanceResult() (lines 218-220; T derives from Result, so
\* the dynamic_cast of line 218 succeeds and line 222 is not reached).
FailureOutcome(t) ==
    IF CheckMode = "CheckResult"
    THEN VariantOfAny(InstanceResult(instance_handle[t].inst))
    ELSE HandleOutcome(NullHandle)

\* line 183: return {};  lines 218-220: return result->instanceResult();
Fail(t) ==
    /\ pc[t] = "fail"
    /\ UNCHANGED tvars
    /\ outcome' = [outcome EXCEPT ![t] = FailureOutcome(t)]
    /\ pc' = [pc EXCEPT ![t] = "unlock"]
    /\ UNCHANGED <<outer, CheckMode, keepalive, args, instance_handle, maybe_lock,
                   weak_instance_handle_, keepalive_handle_, instance_lock_,
                   nInst, ctorArg, deadAtCall, raced>>
    /\ Reap

\* ~pair destroys its members in reverse order: second (the unique_lock,
\* which unlocks the mutex) before first (the handle).
Unlock(t) ==
    /\ pc[t] = "unlock"
    /\ UNCHANGED tvars
    /\ instance_lock_' = 0
    /\ maybe_lock' = [maybe_lock EXCEPT ![t] = FALSE]
    /\ pc' = [pc EXCEPT ![t] = "drop"]
    /\ UNCHANGED <<outer, CheckMode, keepalive, args, instance_handle, outcome,
                   weak_instance_handle_, keepalive_handle_, nInst, ctorArg,
                   destroyed, deadAtCall, raced>>

DropLocal(t) ==
    /\ pc[t] = "drop"
    /\ UNCHANGED tvars
    /\ instance_handle' = [instance_handle EXCEPT ![t] = NullHandle]
    /\ pc' = [pc EXCEPT ![t] = Resume(t)]
    /\ args' = [args EXCEPT ![t] = ResumeArgs(t)]
    /\ raced' = [raced EXCEPT ![t] = FALSE]
    /\ outer' = [outer EXCEPT ![t] = Pop(outer[t])]
    /\ UNCHANGED <<CheckMode, keepalive, maybe_lock, outcome,
                   weak_instance_handle_, keepalive_handle_, instance_lock_,
                   nInst, ctorArg, deadAtCall>>
    /\ Reap

\* The caller lets go of what its last call returned (Handle is a
\* shared_ptr<T>, line 96).
Release(t) ==
    /\ pc[t] = "idle"
    /\ UNCHANGED tvars
    /\ outcome[t] # NoOutcome
    /\ outcome' = [outcome EXCEPT ![t] = NoOutcome]
    /\ deadAtCall' = [deadAtCall EXCEPT ![t] = {}]
    /\ UNCHANGED <<outer, CheckMode, keepalive, pc, args, instance_handle, maybe_lock,
                   weak_instance_handle_, keepalive_handle_, instance_lock_,
                   nInst, ctorArg, raced>>
    /\ Reap

Next ==
    \E t \in Threads :
        \/ \E a \in Args : Call(t, a)
        \/ FastPath(t)
        \/ TornRead(t)
        \/ Lock(t)
        \/ Recheck(t)
        \/ Construct(t)
        \/ Validate(t)
        \/ Publish(t)
        \/ Keepalive(t)
        \/ Return(t)
        \/ Fail(t)
        \/ Unlock(t)
        \/ DropLocal(t)
        \/ Release(t)

Spec == Init /\ [][Next]_vars

\* The steps of thread t's call in progress (everything but the caller's
\* own decisions to call and to release).
Step(t) ==
    \/ FastPath(t)
    \/ TornRead(t)
    \/ Lock(t)
    \/ Recheck(t)
    \/ Construct(t)
    \/ Validate(t)
    \/ Publish(t)
    \/ Keepalive(t)
    \/ Return(t)
    \/ Fail(t)
    \/ Unlock(t)
    \/ DropLocal(t)

\* Fair scheduling: a thread whose call can take a step is eventually run.
\* T's constructor and validation methods terminate (Construct, Validate
\* and Fail are single steps) and are not reentrant (no Reenter).
FairSpec == Spec /\ \A t \in Threads : WF_vars(Step(t))

\* T's constructor, running in make_shared (line 128) with the mutex held,
\* calls instance(a) for the same T: the call in progress is suspended and
\* the thread enters instance_impl again.
Reenter(t, a) ==
    /\ pc[t] = "construct"
    /\ UNCHANGED tvars
    /\ outer' = [outer EXCEPT ![t] = <<args[t]>> \o outer[t]]
    /\ args' = [args EXCEPT ![t] = a]
    /\ pc' = [pc EXCEPT ![t] = "fast"]
    /\ UNCHANGED <<CheckMode, keepalive, instance_handle, maybe_lock, outcome,
                   weak_instance_handle_, keepalive_handle_, instance_lock_,
                   nInst, ctorArg, destroyed, deadAtCall, raced>>

NextReentrant ==
    \/ Next
    \/ \E t \in Threads : \E a \in Args : Reenter(t, a)

\* The program with a T whose constructor may call instance() for T
SpecReentrant == Init /\ [][NextReentrant]_vars

\* Transport handle(name): make_shared<MyImpl>(open_fail_desc, name) at some
\* free address, whatever the name; pImpl is its only owner.
TransportCtor(s, name) ==
    /\ ~transports[s].live
    /\ \E a \in Addrs : \E g \in 0..MaxCalls :
         LET impl == MyImplCtor(name, g) IN
         /\ ~heap[a].allocated
         /\ heap' = [heap EXCEPT ![a] =
                       [allocated |-> TRUE, data |-> impl.data,
                        counter |-> impl.counter, use_count |-> 1]]
         /\ transports' = [transports EXCEPT ![s] =
                             [live |-> TRUE,
                              open_fail_desc |-> impl.fail_desc,
                              pImpl |-> a]]
         /\ calls' = [calls EXCEPT ![a] = 0]
    /\ UNCHANGED <<result, copies>>
    /\ UNCHANGED svars

\* auto handle2 = handle1: the implicit copy constructor copies
\* open_fail_desc and pImpl; the shared_ptr copy adds an owner.
CopyCtor(s, other) ==
    /\ ~transports[s].live
    /\ transports[other].live
    /\ transports' = [transports EXCEPT ![s] = transports[other]]
    /\ heap' = [heap EXCEPT ![transports[other].pImpl].use_count = @ + 1]
    /\ copies' = copies \cup {{s, r} : r \in CopiesOf(other)}
    /\ UNCHANGED <<calls, result>>
    /\ UNCHANGED svars

\* A Transport goes out of scope: the implicit destructor drops pImpl, and
\* the last owner destroys the MyImpl.
Destroy(s) ==
    /\ transports[s].live
    /\ LET a == transports[s].pImpl IN
       /\ heap' = [heap EXCEPT ![a] =
                     IF @.use_count = 1 THEN FreeCell
                     ELSE [@ EXCEPT !.use_count = @ - 1]]
       /\ calls' = [calls EXCEPT ![a] =
                      IF heap[a].use_count = 1 THEN 0 ELSE @]
    /\ transports' = [transports EXCEPT ![s] = NoTransport]
    /\ copies' = {p \in copies : s \notin p}
    /\ UNCHANGED result
    /\ UNCHANGED svars

\* handle.process(arg): pImpl->process(arg) returns data + '+' + arg + '+' +
\* counter, kept here as its three parts, and then increments counter.
Process(s, arg) ==
    /\ transports[s].live
    /\ LET a == transports[s].pImpl IN
       /\ calls[a] < MaxCalls
       /\ result' = [n |-> calls[a] + 1, data |-> heap[a].data,
                     arg |-> arg, counter |-> heap[a].counter]
       /\ heap' = [heap EXCEPT ![a].counter = @ + 1]
       /\ calls' = [calls EXCEPT ![a] = @ + 1]
    /\ UNCHANGED <<transports, copies>>
    /\ UNCHANGED svars

NextTransport ==
    \E s \in Slots :
        \/ \E name \in Names : TransportCtor(s, name)
        \/ \E other \in Slots : CopyCtor(s, other)
        \/ Destroy(s)
        \/ \E arg \in ProcessArgs : Process(s, arg)

\* The Transport demo on its own
SpecTransport == Init /\ [][NextTransport]_vars

----------------------------------------------------------------------------
TypeOK ==
    /\ CheckMode \in Modes
    /\ keepalive \in BOOLEAN
    /\ weak_instance_handle_ \in 0..nInst
    /\ keepalive_handle_ \in 0..nInst
    /\ instance_lock_ \in {0} \cup Threads
    /\ nInst \in 0..MaxInst
    /\ destroyed \subseteq 1..nInst

----------------------------------------------------------------------------
\* Properties

HandlesOf(t) == {instance_handle[t], outcome[t].h} \ {NullHandle}

AllHandles == UNION {HandlesOf(t) : t \in Threads}

\* C1: for a non-validating T, as long as a Handle to the first Instance
\* has stayed alive, exactly one T has been constructed and every Handle
\* any call holds or has returned refers to that one Instance.
C1_OneConstruction ==
    (CheckMode = "None" /\ nInst >= 1 /\ 1 \notin destroyed) =>
        /\ nInst = 1
        /\ \A h \in AllHandles : h = Handle(1)

\* A thread that raced into first construction and lost the gate returns
\* the winner's Instance while the winner holds its Handle.
C1_Witness ==
    /\ CheckMode = "None"
    /\ \E t \in Threads, u \in Threads :
         /\ t # u
         /\ outcome[t].h = Handle(1)
         /\ raced[u] /\ pc[u] = "return" /\ ~maybe_lock[u]
         /\ instance_handle[u] = Handle(1)

\* C2: for a validating T the slot never refers to an Instance whose
\* instanceOk() returned false, and a call that resolved the slot (on the
\* fast path or on the re-check) holds a Handle to a validated Instance.
C2_SlotValidated ==
    (CheckMode # "None") =>
        /\ weak_instance_handle_ # 0 => InstanceOk(weak_instance_handle_)
        /\ \A t \in Threads :
             (pc[t] = "return" /\ ~maybe_lock[t]) =>
                 /\ instance_handle[t] # NullHandle
                 /\ InstanceOk(instance_handle[t].inst)

\* A construction failed validation earlier, a later one was published and
\* a call resolved it from the slot.
C2_Witness ==
    /\ CheckMode # "None"
    /\ \E i \in 1..nInst : ~InstanceOk(i)
    /\ weak_instance_handle_ # 0
    /\ \E t \in Threads :
         /\ pc[t] = "return" /\ ~maybe_lock[t]
         /\ instance_handle[t] = Handle(weak_instance_handle_)

\* C3: for a Checkable T, a call whose construction failed validation
\* returns a failure outcome and leaves the slot resolving to nothing; a
\* construction is made from the constructing call's own arguments and, when
\* valid, is returned as a normal Handle; no Handle a caller received refers
\* to an Instance that failed validation.
C3_FailureDiscarded ==
    (CheckMode # "None") =>
        \A t \in Threads :
            /\ outcome[t].h # NullHandle => InstanceOk(outcome[t].h.inst)
            /\ pc[t] \in {"check", "publish", "fail"} =>
                   ctorArg[instance_handle[t].inst] = args[t]
            /\ pc[t] = "unlock" =>
                   IF InstanceOk(instance_handle[t].inst)
                   THEN outcome[t] = HandleOutcome(instance_handle[t])
                   ELSE /\ outcome[t] \in {HandleOutcome(NullHandle),
                                           AnyOutcome(ResultCode)}
                        /\ WeakLock(weak_instance_handle_) = NullHandle

\* acquire("fail") gave a failure outcome with payload 7, and a following
\* acquire("ok") constructed anew and returned a normal Handle.
C3_Witness ==
    /\ CheckMode = "CheckResult"
    /\ nInst = 2 /\ ~InstanceOk(1) /\ ctorArg[2] = "ok"
    /\ \E t \in Threads, u \in Threads :
         /\ outcome[u] = AnyOutcome(ResultCode)
         /\ outcome[t] = HandleOutcome(Handle(2))

\* C4: under the external-lifetime policy an Instance no Handle owns any more
\* has been destroyed, and a call never returns an Instance that was already
\* destroyed when the call began: it constructs a new one.
C4_ExternalLifetime ==
    (~keepalive) =>
        /\ \A i \in 1..nInst :
             (\A t \in Threads : Handle(i) \notin HandlesOf(t)) =>
                 i \in destroyed
        /\ \A t \in Threads :
             pc[t] \in {"idle", "unlock", "drop"} =>
                 outcome[t].h.inst \notin deadAtCall[t]

\* Every Handle to the first Instance was dropped, and the next call
\* returned a second Instance.
C4_Witness ==
    /\ ~keepalive
    /\ \E t \in Threads :
         /\ 1 \in deadAtCall[t]
         /\ outcome[t] = HandleOutcome(Handle(2))

\* C5: under the process-keepalive policy, once the Keep-Alive Owner is set
\* its Instance is never destroyed, whatever Handles are dropped, no further
\* T is constructed, and every Handle a call holds or returns afterwards
\* refers to that Instance (a call that failed validation earlier may still
\* be discarding its own Instance).
C5_KeepaliveSameInstance ==
    (keepalive /\ keepalive_handle_ # 0) =>
        /\ keepalive_handle_ \notin destroyed
        /\ nInst = keepalive_handle_
        /\ \A t \in Threads :
             /\ pc[t] \notin {"construct", "check", "fail"}
             /\ outcome[t].h.inst \in {0, keepalive_handle_}
             /\ \/ instance_handle[t].inst \in {0, keepalive_handle_}
                \/ /\ pc[t] = "drop"
                   /\ instance_handle[t].inst < keepalive_handle_
                   /\ ~InstanceOk(instance_handle[t].inst)

\* Every external Handle was dropped, and a later call resolved the same
\* Instance on its fast path.
C5_Witness ==
    /\ keepalive /\ keepalive_handle_ # 0
    /\ \A t \in Threads : outcome[t] = NoOutcome
    /\ \E t \in Threads :
         /\ pc[t] = "return" /\ ~maybe_lock[t]
         /\ instance_handle[t] = Handle(keepalive_handle_)
         /\ \A u \in Threads \ {t} : pc[u] = "idle"

LiveInstances == {i \in 1..nInst : i \notin destroyed}

\* C6: at most one Instance that has been constructed and not yet destroyed
\* exists in every reachable state.
C6_AtMostOneLive == Cardinality(LiveInstances) <= 1

\* C7: at most one thread at a time is in T's constructor, and a thread in
\* T's constructor holds the gate.
C7_ConstructUnderGate ==
    /\ Cardinality({t \in Threads : pc[t] = "construct"}) <= 1
    /\ \A t \in Threads : pc[t] = "construct" => instance_lock_ = t

\* One thread constructs while the thread it raced with waits for the gate.
C7_Witness ==
    \E t \in Threads, u \in Threads :
        /\ pc[t] = "construct" /\ raced[t]
        /\ pc[u] = "lock" /\ raced[u]

\* Instance i was constructed for a validating T and instanceOk() is false.
FailedValidation(i) == CheckMode # "None" /\ ~InstanceOk(i)

\* A thread that missed its fast path before any T existed and reaches T's
\* constructor after another thread constructed: the loser of the race into
\* first construction, constructing an Instance of its own.
LoserConstructs(t) == raced[t] /\ nInst >= 1 /\ pc[t] = "construct"

\* C8 (as claimed): the loser constructs its own Instance only if the
\* construction made before it failed validation; otherwise it returns the
\* winner's Instance.
C8_OnlyAfterFailedValidation ==
    \A t \in Threads :
        LoserConstructs(t) => \A i \in 1..nInst : FailedValidation(i)

\* C8 (amended): the loser constructs its own Instance only if every
\* Instance constructed before it either failed validation or, under the
\* external-lifetime policy, was already destroyed; a loser that finds a live
\* Instance on its re-check returns a Handle to that validated Instance.
C8_OnlyWithoutLiveInstance ==
    \A t \in Threads :
        /\ LoserConstructs(t) =>
             \A i \in 1..nInst :
                 FailedValidation(i) \/ (~keepalive /\ i \in destroyed)
        /\ (raced[t] /\ pc[t] = "return" /\ ~maybe_lock[t]) =>
             /\ instance_handle[t] = Handle(weak_instance_handle_)
             /\ ~FailedValidation(instance_handle[t].inst)

\* The loser constructs after the winner's valid Instance was released and
\* destroyed.
C8_Witness ==
    \E t \in Threads :
        /\ LoserConstructs(t)
        /\ \E i \in 1..nInst : ~FailedValidation(i) /\ i \in destroyed

\* C9: every step that changes the slot's weak reference or the Keep-Alive
\* Owner is taken by the thread that holds the gate before and after it.
C9_WritesUnderGate ==
    [][(weak_instance_handle_' # weak_instance_handle_
          \/ keepalive_handle_' # keepalive_handle_) =>
           /\ instance_lock_ \in Threads
           /\ instance_lock_' = instance_lock_
           /\ pc'[instance_lock_] # pc[instance_lock_]]_vars

\* The gate's holder has written the slot and the Keep-Alive Owner while
\* another thread is inside acquire.
C9_Witness ==
    \E t \in Threads, u \in Threads :
        /\ t # u
        /\ instance_lock_ = t /\ pc[t] = "return"
        /\ weak_instance_handle_ = instance_handle[t].inst
        /\ keepalive_handle_ = instance_handle[t].inst
        /\ pc[u] \in {"fast", "lock"}

\* Thread t waits for the gate, which another thread holds.
Blocked(t) == pc[t] = "lock" /\ instance_lock_ \notin {0, t}

\* C10 (as claimed): a thread is blocked on the gate only while the holder
\* is on its way to a first Instance (re-checking, constructing, validating
\* or about to publish); it is never blocked while the slot resolves to a
\* live, published Instance.
C10_BlockedOnlyDuringConstruction ==
    \A t \in Threads :
        Blocked(t) =>
            /\ WeakLock(weak_instance_handle_) = NullHandle
            /\ pc[instance_lock_] \in {"recheck", "construct", "check",
                                       "publish"}

\* C10 (amended): a thread is blocked on the gate only while another call
\* holds it between taking it and destroying its returned pair; the holder
\* constructs or validates only while the slot resolves to no live Instance,
\* but a thread can stay blocked behind a holder that is re-checking, or that
\* has already published a live Instance and has not yet returned.
C10_BlockedBehindHolder ==
    \A t \in Threads :
        Blocked(t) =>
            /\ pc[instance_lock_] \in {"recheck", "construct", "check",
                                       "publish", "keepalive", "return",
                                       "fail", "unlock"}
            /\ pc[instance_lock_] = "return" => maybe_lock[instance_lock_]
            /\ pc[instance_lock_] \in {"construct", "check", "fail"} =>
                   WeakLock(weak_instance_handle_) = NullHandle

\* A thread is blocked on the gate while a live, published Instance exists.
C10_Witness ==
    \E t \in Threads :
        /\ Blocked(t)
        /\ WeakLock(weak_instance_handle_) # NullHandle
        /\ pc[instance_lock_] = "return"

\* C11: a call whose first check resolves a live Instance goes straight to
\* its return with a Handle to that Instance, and from there returns it to
\* the caller: no step of it takes or releases the gate or constructs,
\* whoever holds the gate.
C11_FastPathNoGate ==
    [][\A t \in Threads :
         /\ (pc[t] = "fast" /\ pc'[t] # "fast"
               /\ WeakLock(weak_instance_handle_) # NullHandle) =>
                /\ pc'[t] = "return" /\ ~maybe_lock'[t]
                /\ instance_handle'[t] = Handle(weak_instance_handle_)
                /\ instance_lock_' = instance_lock_
                /\ nInst' = nInst
         /\ (pc[t] = "return" /\ ~maybe_lock[t] /\ pc'[t] # "return") =>
                /\ pc'[t] = "idle"
                /\ outcome'[t] = HandleOutcome(instance_handle[t])
                /\ instance_lock_' = instance_lock_
                /\ nInst' = nInst]_vars

\* A call holds a Handle to the Instance whose constructing call has
\* published it and still holds the gate: it resolved it on the fast path.
C11_Witness ==
    \E t \in Threads, u \in Threads :
        /\ t # u
        /\ instance_lock_ = u /\ maybe_lock[u]
        /\ weak_instance_handle_ = instance_handle[u].inst
        /\ pc[t] = "return" /\ ~maybe_lock[t]
        /\ instance_handle[t] = instance_handle[u]

C13_KeepaliveAssignedOnce ==
    [][/\ \A t \in Threads :
            (keepalive /\ pc[t] = "keepalive" /\ pc'[t] # "keepalive") =>
                /\ keepalive_handle_ = 0
                /\ keepalive_handle_' = nInst
                /\ keepalive_handle_' = weak_instance_handle_
                /\ instance_handle[t] = Handle(nInst)
                /\ ~FailedValidation(nInst)
                /\ \A i \in 1..(nInst - 1) : FailedValidation(i)
       /\ (keepalive_handle_' # keepalive_handle_) =>
            /\ keepalive
            /\ \E t \in Threads : pc[t] = "keepalive" /\ pc'[t] = "return"]_vars

\* The owner holds the second Instance: the first construction failed
\* validation and assigned nothing.
C13_Witness ==
    /\ keepalive
    /\ keepalive_handle_ = 2
    /\ FailedValidation(1)
    /\ 1 \in destroyed

\* C14 (as claimed): every caller that lost the race into first construction
\* returns a Handle to the winner's Instance (read for a winner whose
\* Instance did not fail validation).
C14_LosersReturnWinnersInstance ==
    \A t \in Threads :
        (raced[t] /\ pc[t] = "return" /\ ~FailedValidation(1)) =>
            instance_handle[t] = Handle(1)

\* C14 (amended): an Instance is built from the arguments of the caller
\* that holds the gate, and from no other caller's; a losing caller whose
\* re-check finds a live Instance returns a Handle to it and its own
\* arguments go unused; an acquire that finds a live Instance on either
\* check changes neither an Instance nor the slot.  (A loser that finds no
\* live Instance constructs from its own arguments.)
C14_WinnersArguments ==
    [][/\ (nInst' # nInst) =>
            /\ nInst' = nInst + 1
            /\ instance_lock_ \in Threads
            /\ pc[instance_lock_] = "construct"
            /\ ctorArg'[nInst'] = args[instance_lock_]
            /\ \A i \in 1..nInst : ctorArg'[i] = ctorArg[i]
       /\ \A t \in Threads :
            /\ (pc[t] \in {"fast", "recheck"} /\ pc'[t] = "return") =>
                 /\ nInst' = nInst /\ ctorArg' = ctorArg
                 /\ destroyed' = destroyed
                 /\ weak_instance_handle_' = weak_instance_handle_
                 /\ keepalive_handle_' = keepalive_handle_
            /\ (raced[t] /\ pc[t] = "recheck" /\ pc'[t] # "recheck"
                  /\ WeakLock(weak_instance_handle_) # NullHandle) =>
                 /\ pc'[t] = "return" /\ ~maybe_lock'[t]
                 /\ instance_handle'[t] = Handle(weak_instance_handle_)
                 /\ nInst' = nInst /\ ctorArg' = ctorArg]_vars

\* The loser of the race returns the winner's Instance, which was built
\* from arguments other than the loser's.
C14_Witness ==
    \E t \in Threads :
        /\ raced[t] /\ pc[t] = "return" /\ ~maybe_lock[t]
        /\ instance_handle[t] = Handle(1)
        /\ args[t] # ctorArg[1]

\* A failure outcome: the null Handle, or the std::any arm of the variant
IsFailure(o) == o.kind = "any" \/ o = HandleOutcome(NullHandle)

\* C15: a call returns a failure outcome exactly when T validates and the
\* call itself constructed an Instance whose instanceOk() is false: the
\* null Handle for a Checkable-only T, a std::any for a Checkable +
\* Result-bearing T.  Every other call, and every call on a non-validating
\* T, returns the non-empty Handle it holds.
C15_FailureIffOwnConstructionInvalid ==
    [][\A t \in Threads :
         (pc[t] \in {"return", "fail"} /\ pc'[t] # pc[t]) =>
            LET constructedInvalid ==
                    /\ CheckMode # "None"
                    /\ maybe_lock[t]
                    /\ instance_handle[t] = Handle(nInst)
                    /\ ~InstanceOk(nInst)
            IN  /\ IsFailure(outcome'[t]) <=> constructedInvalid
                /\ constructedInvalid =>
                     /\ (CheckMode = "Check") =>
                            outcome'[t] = HandleOutcome(NullHandle)
                     /\ (CheckMode = "CheckResult") =>
                            outcome'[t].kind = "any"
                /\ ~constructedInvalid =>
                     /\ outcome'[t] = HandleOutcome(instance_handle[t])
                     /\ instance_handle[t] # NullHandle]_vars

\* After one call returned a valid Instance that has since been destroyed, a
\* call on a Checkable-only T has constructed an invalid one and returned
\* the null Handle.
C15_Witness ==
    \E t \in Threads :
        /\ CheckMode = "Check"
        /\ pc[t] = "unlock" /\ outcome[t] = HandleOutcome(NullHandle)
        /\ instance_handle[t] = Handle(2) /\ ~InstanceOk(2)
        /\ InstanceOk(1) /\ 1 \in destroyed

\* C16: instanceResultValue() is queried only by a call on a Checkable +
\* Result-bearing T that constructed the Instance itself, still holds the
\* gate, and has just had false from instanceOk() on that Instance: the
\* failure branch is entered only from that test, and a std::any outcome
\* arises only in the failure branch.  It is never queried on a valid
\* Instance nor on one obtained from the slot.
C16_ResultOnlyAfterFailedCheck ==
    [][\A t \in Threads :
         /\ (pc'[t] = "fail" /\ pc[t] # "fail") =>
              /\ pc[t] = "check"
              /\ ~InstanceOk(instance_handle[t].inst)
         /\ (pc[t] = "fail" /\ pc'[t] # "fail") =>
              /\ CheckMode # "None"
              /\ maybe_lock[t] /\ instance_lock_ = t
              /\ instance_handle[t] = Handle(nInst)
              /\ weak_instance_handle_ # nInst
              /\ ~InstanceOk(nInst)
         /\ (outcome'[t].kind = "any" /\ outcome'[t] # outcome[t]) =>
              /\ CheckMode = "CheckResult" /\ pc[t] = "fail"
              /\ outcome'[t].payload =
                   MakeAny("ResultT", InstanceResultValue(nInst))]_vars

\* A Checkable + Result-bearing T: the call is in its failure branch, about
\* to query the result of the Instance it constructed.
C16_Witness ==
    \E t \in Threads :
        /\ CheckMode = "CheckResult"
        /\ pc[t] = "fail" /\ maybe_lock[t]
        /\ ~InstanceOk(instance_handle[t].inst)

\* C17: a thread whose T constructor has called instance() for the same T
\* (no live Instance exists, or the constructor would not be running) never
\* gets further than waiting for the mutex: the inner call's first check
\* misses, nobody is publishing, the mutex it waits for is held by the
\* thread itself, and from then on the thread returns from neither call,
\* releases nothing and constructs nothing.
C17_ReentrantConstructorDeadlocks ==
    [][\A t \in Threads :
         /\ (outer'[t] # << >>) =>
              /\ Len(outer'[t]) = 1
              /\ pc'[t] \in {"fast", "lock"}
              /\ instance_lock_' = t /\ ~maybe_lock'[t]
              /\ WeakLock(weak_instance_handle_)' = NullHandle
              /\ \A u \in Threads : pc'[u] # "publish"
         /\ (outer[t] # << >>) =>
              /\ outer'[t] = outer[t]
              /\ outcome'[t] = outcome[t]
              /\ instance_lock_' = instance_lock_
              /\ nInst' = nInst]_vars

\* The thread waits for the mutex it holds, and the other thread waits
\* behind it.
C17_Witness ==
    \E t \in Threads, u \in Threads :
        /\ t # u
        /\ outer[t] # << >> /\ pc[t] = "lock" /\ instance_lock_ = t
        /\ pc[u] = "lock"

\* The program points at which a call holds the mutex
GateHeldAt == {"recheck", "construct", "check", "publish", "keepalive",
               "return", "fail", "unlock"}

C19_SlotResolvesToOwner ==
    (keepalive_handle_ # 0) =>
        /\ keepalive
        /\ Alive(keepalive_handle_)
        /\ weak_instance_handle_ = keepalive_handle_
        /\ WeakLock(weak_instance_handle_) = Handle(keepalive_handle_)

\* Every caller has released its Handle and no call is in progress; the
\* owner alone keeps the Instance, and the slot still resolves to it.
C19_Witness ==
    /\ keepalive_handle_ # 0
    /\ InFlight = {}
    /\ \A t \in Threads : outcome[t] = NoOutcome
    /\ Owners(keepalive_handle_) = 1
    /\ WeakLock(weak_instance_handle_) = Handle(keepalive_handle_)

\* C20 (as claimed): Transports that are copies of one construction are
\* is_same and separately constructed ones are not; use_count is the number
\* of live copies; the n-th process call made on an implementation, through
\* whichever copy, returns counter n-1.
C20_CopiesShareImplementation ==
    /\ \A s \in LiveTransports, r \in LiveTransports :
           IsSame(s, r) <=> (r \in CopiesOf(s))
    /\ \A s \in LiveTransports : UseCount(s) = Cardinality(CopiesOf(s))
    /\ (result.n # 0) => (result.counter = result.n - 1)

====
